---- MODULE Spec2Model ----
(***************************************************************************)
(* The press-and-hold voice chat component (VoiceChat, MediaRecorder and   *)
(* transcription-webhook variant) as a state machine.  One step of the     *)
(* model is one browser task: a pointer event handler, or the continuation *)
(* of an async function from one await to the next.  React state set in a  *)
(* task is committed before the next task runs, so a handler reads the     *)
(* state of the latest render; a value captured by a closure (the          *)
(* conversationHistory seen by startRecording) is kept in the session.     *)
(***************************************************************************)
EXTENDS Integers, Sequences, FiniteSets, TLC

\* Number of presses (capture sessions) explored.
MaxSessions == 2
\* Length of audioChunksRef.current explored.
MaxChunks == 1

Sessions == 1..MaxSessions

\* ---------------------------------------------------------------- texts
\* A text is a sequence of characters (one-character strings).
Digit == <<"1", "2", "3", "4", "5", "6", "7", "8", "9">>

EmptyText == <<>>
\* What the speaker of session s said, as the service returns it (untrimmed).
UserText(s) == <<" ", "u", Digit[s]>>
\* response.output_text of the dialogue call of session s.
ReplyText(s) == <<"r", Digit[s]>>
UnderstandApology == <<"S", "o", "r", "r", "y", "?">>
ErrorApology == <<"S", "o", "r", "r", "y", "!">>

RECURSIVE TrimStart(_)
TrimStart(t) == IF t # <<>> /\ Head(t) = " " THEN TrimStart(Tail(t)) ELSE t

RECURSIVE TrimEnd(_)
TrimEnd(t) ==
    IF t # <<>> /\ t[Len(t)] = " " THEN TrimEnd(SubSeq(t, 1, Len(t) - 1)) ELSE t

\* String.prototype.trim
Trim(t) == TrimEnd(TrimStart(t))

\* JavaScript truthiness of a string
Truthy(t) == t # EmptyText

\* ------------------------------------------------------------- messages
Message(role, content) == [role |-> role, content |-> content]

\* ------------------------------------------------- webhook HTTP responses
\* What the chain reader -> fetch -> response.json() of onstop settles with.
\* status is "rejected" when the reader or the fetch promise rejects; body is
\* "json" when response.json() parses; hasField says whether the body has a
\* speechInputText field, and text is its value.
HttpResponse(status, body, hasField, text) ==
    [status |-> status, body |-> body, hasField |-> hasField, text |-> text]

NoResponse == HttpResponse("none", "none", FALSE, EmptyText)

TranscriptTexts(s) == {EmptyText, <<" ">>, UserText(s)}

WebhookResponses(s) ==
    {HttpResponse("ok", "json", TRUE, t) : t \in TranscriptTexts(s)}
        \cup {HttpResponse("ok", "json", FALSE, EmptyText),
              HttpResponse("ok", "malformed", FALSE, EmptyText),
              HttpResponse("http500", "json", FALSE, EmptyText),
              HttpResponse("rejected", "none", FALSE, EmptyText)}

VARIABLES
    isRecording,          \* useState(false)
    transcript,           \* useState('')
    response,             \* useState('')
    isSpeaking,           \* useState(false)
    conversationHistory,  \* useState<Message[]>([])
    lastRecording,        \* useState<Blob | null>(null): the clip, or <<>> for null
    mediaRecorderRef,     \* useRef: the session whose recorder it holds, 0 for null
    audioChunksRef,       \* useRef<Blob[]>([]): the chunks pushed, see Chunk
    nSessions,            \* presses that passed the isSpeaking guard so far
    session,              \* per press: the startRecording call and its recorder
    speech,               \* per press: the speak() call its turn makes
    hasSynth,             \* 'speechSynthesis' in window
    webmSupported,        \* MediaRecorder accepts audio/webm;codecs=opus
    micData,              \* the recorder's dataavailable events carry data
    apiKey,               \* import.meta.env.VITE_OPENAI_API_KEY, '' when unset
    stopErrors,           \* MediaRecorder.stop() calls on an inactive recorder
    input,                \* what the step just taken consumed (history variable)
    overlapped,           \* some press opened a session while a capture was
                          \* pending or active (history variable)
    pointer,              \* the last pointer event handled: "down" or "up"
                          \* (history variable)
    \* The speech-recognition variant of the component, which has these in
    \* place of isRecording and the recorder refs:
    isListening,          \* useState(false)
    recognitionRef,       \* useRef: the recognition it holds, 0 for null
    recognition,          \* per press: the webkitSpeechRecognition created
    nRecognitions,        \* recognitions created so far
    hasRecognition        \* 'webkitSpeechRecognition' in window

vars == <<isRecording, transcript, response, isSpeaking, conversationHistory,
          lastRecording, mediaRecorderRef, audioChunksRef, nSessions, session,
          speech, hasSynth, webmSupported, micData, apiKey, stopErrors, input,
          overlapped, pointer, isListening, recognitionRef, recognition,
          nRecognitions, hasRecognition>>

listening ==
    <<isListening, recognitionRef, recognition, nRecognitions, hasRecognition>>

env == <<hasSynth, webmSupported, micData, apiKey>>

\* ------------------------------------------------------------------ App
\* The API keys explored: none configured, one configured.
ApiKeys == {EmptyText, <<"s", "k">>}

\* App with the key test forgotten: VoiceChat is rendered in any case.
App_NoGate(key) == [screen |-> "chat", voiceChat |-> <<[apiKey |-> key]>>]

\* What App renders: the setup instructions, or the VoiceChat elements it
\* mounts with their props.
App(key) ==
    IF ~Truthy(key)
    THEN [screen |-> "setup", voiceChat |-> <<>>]
    ELSE [screen |-> "chat", voiceChat |-> <<[apiKey |-> key]>>]

\* A VoiceChat is mounted: its pointer handlers exist (every other step of the
\* component is a callback of something a pointer handler started).
Mounted == App(apiKey).voiceChat # <<>>

\* A startRecording call that has not happened yet.
NoSession ==
    [pc |-> "none",          \* none, opening, recording, stopping,
                             \* transcribing, conversing, done, aborted
     history |-> <<>>,       \* conversationHistory captured by the closure
     stream |-> "none",      \* none, live, stopped (tracks)
     emitted |-> 0,          \* non-empty chunks its recorder has emitted
     stops |-> 0,            \* stop() calls its recorder has received
     transcriptions |-> 0,   \* requests made to the transcription webhook
     dialogues |-> 0,        \* requests made to the dialogue service
     messages |-> <<>>,      \* input of the dialogue request
     dialogue |-> "none",    \* none, pending, ok, failed
     alerted |-> FALSE]      \* alert() shown

\* The input of a step: the session whose continuation ran and, for the
\* continuation after the transcription fetch, the response it received.
StepInput(s, r) == [session |-> s, reply |-> r]
NoInput == StepInput(0, NoResponse)

\* A webkitSpeechRecognition that has not been created yet.
NoRecognition ==
    [pc |-> "none",          \* none, starting, listening, stopping, ended
     history |-> <<>>,       \* conversationHistory captured by the closure
     turn |-> "none"]        \* none, conversing, done (the dialogue call)

\* A speak() call that has not happened yet.
NoSpeech ==
    [pc |-> "none",          \* none, requesting, starting, playing, fallback, done
     text |-> EmptyText,
     url |-> "none",         \* none, live, revoked (object URL)
     requests |-> 0,         \* requests made to the remote speech service
     cleared |-> 0]          \* setIsSpeaking(false) calls made by this speak()

\* The state after the first render, in some browser.
FirstRender ==
    /\ isRecording = FALSE
    /\ transcript = EmptyText
    /\ response = EmptyText
    /\ isSpeaking = FALSE
    /\ conversationHistory = <<>>
    /\ lastRecording = <<>>
    /\ mediaRecorderRef = 0
    /\ audioChunksRef = <<>>
    /\ nSessions = 0
    /\ session = [s \in Sessions |-> NoSession]
    /\ speech = [s \in Sessions |-> NoSpeech]
    /\ hasSynth \in BOOLEAN
    /\ webmSupported \in BOOLEAN
    /\ apiKey \in ApiKeys
    /\ stopErrors = 0
    /\ input = NoInput
    /\ overlapped = FALSE
    /\ pointer = "up"
    /\ isListening = FALSE
    /\ recognitionRef = 0
    /\ recognition = [r \in Sessions |-> NoRecognition]
    /\ nRecognitions = 0

\* The turn logic never reads the chunks, so here the recorder's events carry
\* no data (event.data.size = 0).
Init == FirstRender /\ micData = FALSE /\ hasRecognition = TRUE

\* The recorder's events carry data.
InitClip == FirstRender /\ micData = TRUE /\ hasRecognition = TRUE

\* The first render of the speech-recognition variant.
InitRecognition ==
    FirstRender /\ micData = FALSE /\ hasRecognition \in BOOLEAN

\* Some MediaRecorder is in state "recording".
Capturing == \E r \in Sessions : session[r].pc = "recording"

\* Some startRecording call waits for the microphone or has its recorder going.
CapturePending == \E r \in Sessions : session[r].pc \in {"opening", "recording"}

\* The synchronous part of speak(text) called by the turn of session s:
\* setIsSpeaking(true) and the speech request is issued.
SpeakCall(s, text) ==
    [speech EXCEPT ![s] = [pc |-> "requesting", text |-> text, url |-> "none",
                           requests |-> speech[s].requests + 1,
                           cleared |-> 0]]

\* ---------------------------------------------------------- pointer events
\* handlePointerDown -> startRecording, up to the await of getUserMedia.
PointerDown ==
    /\ Mounted
    /\ nSessions < MaxSessions
    /\ IF isSpeaking
       THEN UNCHANGED vars
       ELSE /\ nSessions' = nSessions + 1
            /\ session' = [session EXCEPT ![nSessions + 1] =
                               [NoSession EXCEPT !.pc = "opening",
                                                 !.history = conversationHistory]]
            /\ input' = NoInput
            /\ overlapped' = (overlapped \/ CapturePending)
            /\ pointer' = "down"
            /\ UNCHANGED <<isRecording, transcript, response, isSpeaking,
                           conversationHistory, lastRecording, mediaRecorderRef,
                           audioChunksRef, speech, env, listening, stopErrors>>

\* if (mediaRecorderRef.current), the isRecording test forgotten.
StopGuard_RefOnly == mediaRecorderRef # 0

\* if (mediaRecorderRef.current && isRecording)
StopGuard == mediaRecorderRef # 0 /\ isRecording

\* handlePointerUp -> stopRecording (pointer up or pointer leave).  stop() on a
\* recorder that is not recording throws, and setIsRecording(false) is skipped.
PointerUp ==
    /\ Mounted
    /\ pointer' = "up"
    /\ input' = NoInput
    /\ IF StopGuard
       THEN IF session[mediaRecorderRef].pc = "recording"
            THEN /\ session' = [session EXCEPT
                                   ![mediaRecorderRef].pc = "stopping",
                                   ![mediaRecorderRef].stops = @ + 1]
                 /\ isRecording' = FALSE
                 /\ UNCHANGED stopErrors
            ELSE /\ session' = [session EXCEPT
                                   ![mediaRecorderRef].stops = @ + 1]
                 /\ stopErrors' = stopErrors + 1
                 /\ UNCHANGED isRecording
       ELSE UNCHANGED <<session, isRecording, stopErrors>>
    /\ UNCHANGED <<transcript, response, isSpeaking, conversationHistory,
                   lastRecording, mediaRecorderRef, audioChunksRef, nSessions,
                   speech, env, listening, overlapped>>

\* ------------------------------------------------------------- capture
\* startRecording after the await of getUserMedia: the stream is there, the
\* MediaRecorder is constructed, published in the refs and started; or the
\* constructor throws and the catch alerts.
GetUserMediaResolves(s) ==
    /\ session[s].pc = "opening"
    /\ IF webmSupported
       THEN /\ session' = [session EXCEPT ![s].pc = "recording",
                                          ![s].stream = "live"]
            /\ mediaRecorderRef' = s
            /\ audioChunksRef' = <<>>
            /\ isRecording' = TRUE
       ELSE /\ session' = [session EXCEPT ![s].pc = "aborted",
                                          ![s].stream = "live",
                                          ![s].alerted = TRUE]
            /\ UNCHANGED <<mediaRecorderRef, audioChunksRef, isRecording>>
    /\ input' = NoInput
    /\ UNCHANGED <<transcript, response, isSpeaking, conversationHistory,
                   lastRecording, nSessions, speech, env, listening,
                   stopErrors, overlapped,
                   pointer>>

\* GetUserMediaRejects had setIsRecording(true) been placed before the await.
GetUserMediaRejects_RecordingSetEarly(s) ==
    /\ session[s].pc = "opening"
    /\ session' = [session EXCEPT ![s].pc = "aborted", ![s].alerted = TRUE]
    /\ isRecording' = TRUE
    /\ input' = NoInput
    /\ UNCHANGED <<transcript, response, isSpeaking, conversationHistory,
                   lastRecording, mediaRecorderRef, audioChunksRef, nSessions,
                   speech, env, listening, stopErrors, overlapped, pointer>>

\* getUserMedia rejects (permission denied, no device): the catch alerts.
GetUserMediaRejects(s) ==
    /\ session[s].pc = "opening"
    /\ session' = [session EXCEPT ![s].pc = "aborted", ![s].alerted = TRUE]
    /\ input' = NoInput
    /\ UNCHANGED <<isRecording, transcript, response, isSpeaking,
                   conversationHistory, lastRecording, mediaRecorderRef,
                   audioChunksRef, nSessions, speech, env, listening,
                   stopErrors, overlapped,
                   pointer>>

\* The k-th non-empty chunk (event.data) the recorder of session s emits.
Chunk(s, k) == [of |-> s, seq |-> k]

\* mediaRecorder.ondataavailable for an event whose data has the given size.
OnDataAvailable(s, size) ==
    IF size > 0
    THEN Append(audioChunksRef, Chunk(s, session[s].emitted + 1))
    ELSE audioChunksRef

\* The sizes of event.data explored: no data, some data.
ChunkSizes ==
    IF micData /\ Len(audioChunksRef) < MaxChunks THEN {0, 1} ELSE {0}

\* A timeslice elapses while the recorder of s records.
DataAvailable(s) ==
    /\ session[s].pc = "recording"
    /\ \E size \in ChunkSizes :
          /\ audioChunksRef' = OnDataAvailable(s, size)
          /\ session' = [session EXCEPT ![s].emitted = @ + size]
    /\ input' = NoInput
    /\ UNCHANGED <<isRecording, transcript, response, isSpeaking,
                   conversationHistory, lastRecording, mediaRecorderRef,
                   nSessions, speech, env, listening, stopErrors, overlapped,
                   pointer>>

\* The task MediaRecorder.stop() queued: the last dataavailable, then
\* mediaRecorder.onstop up to its first await; the clip is built from
\* audioChunksRef.current and the chain reader -> fetch is under way.
RecorderStops(s) ==
    /\ session[s].pc = "stopping"
    /\ \E size \in ChunkSizes :
          /\ audioChunksRef' = OnDataAvailable(s, size)
          /\ lastRecording' = audioChunksRef'
          /\ session' = [session EXCEPT ![s].pc = "transcribing",
                                        ![s].emitted = @ + size,
                                        ![s].transcriptions = @ + 1]
    /\ input' = NoInput
    /\ UNCHANGED <<isRecording, transcript, response, isSpeaking,
                   conversationHistory, mediaRecorderRef, nSessions, speech,
                   env, listening, stopErrors, overlapped, pointer>>

\* ------------------------------------------------------- onstop, the turn
\* The catch of the transcription try: the apology is shown and spoken; then
\* the handler's last statement stops the tracks.
TranscriptionFailed(s) ==
    /\ response' = UnderstandApology
    /\ speech' = SpeakCall(s, UnderstandApology)
    /\ isSpeaking' = TRUE
    /\ session' = [session EXCEPT ![s].pc = "done", ![s].stream = "stopped"]
    /\ UNCHANGED <<transcript, conversationHistory>>

\* transcript.trim() is truthy: the user turn is written and the dialogue
\* request is issued with updatedHistory.
TranscriptKept(s, text) ==
    LET updatedHistory == Append(session[s].history, Message("user", text))
    IN  /\ transcript' = text
        /\ conversationHistory' = updatedHistory
        /\ session' = [session EXCEPT ![s].pc = "conversing",
                                      ![s].messages = updatedHistory,
                                      ![s].dialogue = "pending",
                                      ![s].dialogues = @ + 1]
        /\ UNCHANGED <<response, isSpeaking, speech>>

\* The else branch: 'Empty transcript received'; the tracks are stopped.
TranscriptDiscarded(s) ==
    /\ session' = [session EXCEPT ![s].pc = "done", ![s].stream = "stopped"]
    /\ UNCHANGED <<transcript, response, isSpeaking, conversationHistory, speech>>

\* FetchThrows without the response.ok check.
FetchThrows_IgnoresStatus(r) == r.status = "rejected" \/ r.body # "json"

\* if (!response.ok) throw; await response.json() throws on a malformed body.
FetchThrows(r) == r.status # "ok" \/ r.body # "json"

\* result.speechInputText || ''
SpeechInputText(r) == IF r.hasField /\ Truthy(r.text) THEN r.text ELSE EmptyText

\* if (transcript), the trim() forgotten.
TranscriptAccepted_NoTrim(text) == Truthy(text)

\* if (transcript.trim())
TranscriptAccepted(text) == Truthy(Trim(text))

\* The chain reader -> fetch -> json settles and onstop runs to its next await
\* or to its end.
FetchSettles(s) ==
    /\ session[s].pc = "transcribing"
    /\ \E r \in WebhookResponses(s) :
          /\ input' = StepInput(s, r)
          /\ IF FetchThrows(r)
             THEN TranscriptionFailed(s)
             ELSE IF TranscriptAccepted(SpeechInputText(r))
                  THEN TranscriptKept(s, SpeechInputText(r))
                  ELSE TranscriptDiscarded(s)
    /\ UNCHANGED <<isRecording, lastRecording, mediaRecorderRef, audioChunksRef,
                   nSessions, env, listening, stopErrors, overlapped, pointer>>

\* DialogueSucceeded with a fence: the reply of a turn is dropped when a newer
\* press has been accepted since.
DialogueSucceeded_Fenced(s) ==
    /\ session' = [session EXCEPT ![s].pc = "done", ![s].dialogue = "ok",
                                  ![s].stream = "stopped"]
    /\ IF nSessions > s
       THEN UNCHANGED <<response, conversationHistory, speech, isSpeaking>>
       ELSE /\ response' = ReplyText(s)
            /\ conversationHistory' =
                   Append(conversationHistory, Message("assistant", ReplyText(s)))
            /\ speech' = SpeakCall(s, ReplyText(s))
            /\ isSpeaking' = TRUE

\* DialogueSucceeded with the append of the assistant turn forgotten.
DialogueSucceeded_NoAppend(s) ==
    /\ response' = ReplyText(s)
    /\ speech' = SpeakCall(s, ReplyText(s))
    /\ isSpeaking' = TRUE
    /\ session' = [session EXCEPT ![s].pc = "done", ![s].dialogue = "ok",
                                  ![s].stream = "stopped"]
    /\ UNCHANGED conversationHistory

\* openai.responses.create resolves: the reply is shown, appended and spoken.
DialogueSucceeded(s) ==
    /\ response' = ReplyText(s)
    /\ conversationHistory' =
           Append(conversationHistory, Message("assistant", ReplyText(s)))
    /\ speech' = SpeakCall(s, ReplyText(s))
    /\ isSpeaking' = TRUE
    /\ session' = [session EXCEPT ![s].pc = "done", ![s].dialogue = "ok",
                                  ![s].stream = "stopped"]

\* DialogueFailed had the catch reissued the request.
DialogueFailed_Retries(s) ==
    /\ session' = [session EXCEPT ![s].dialogues = @ + 1]
    /\ session[s].dialogues < 2
    /\ UNCHANGED <<response, speech, isSpeaking, conversationHistory>>

\* openai.responses.create rejects: the inner catch shows and speaks the apology.
DialogueFailed(s) ==
    /\ response' = ErrorApology
    /\ speech' = SpeakCall(s, ErrorApology)
    /\ isSpeaking' = TRUE
    /\ session' = [session EXCEPT ![s].pc = "done", ![s].dialogue = "failed",
                                  ![s].stream = "stopped"]
    /\ UNCHANGED conversationHistory

DialogueSettles(s) ==
    /\ session[s].pc = "conversing"
    /\ \/ DialogueSucceeded(s)
       \/ DialogueFailed(s)
    /\ input' = NoInput
    /\ UNCHANGED <<isRecording, transcript, lastRecording, mediaRecorderRef,
                   audioChunksRef, nSessions, env, listening, stopErrors,
                   overlapped,
                   pointer>>

\* --------------------------------------------------------------- speak
\* The catch of speak(): setIsSpeaking(false), then the on-device utterance
\* if the browser has a synthesizer.
SpeakCatch(s) ==
    /\ isSpeaking' = FALSE
    /\ speech' = [speech EXCEPT ![s].cleared = @ + 1,
                                ![s].pc = IF hasSynth THEN "fallback" ELSE "done"]

\* openai.audio.speech.create and mp3.blob() settle: the object URL and the
\* Audio are created, onended is set and audio.play() is called; or the
\* request fails and the catch runs.
SpeechSettles(s) ==
    /\ speech[s].pc = "requesting"
    /\ \/ /\ speech' = [speech EXCEPT ![s].pc = "starting", ![s].url = "live"]
          /\ UNCHANGED isSpeaking
       \/ SpeakCatch(s)
    /\ input' = NoInput
    /\ UNCHANGED <<isRecording, transcript, response, conversationHistory,
                   lastRecording, mediaRecorderRef, audioChunksRef, nSessions,
                   session, env, listening, stopErrors, overlapped, pointer>>

\* The promise of audio.play() settles: playback runs, or the catch runs.
PlaySettles(s) ==
    /\ speech[s].pc = "starting"
    /\ \/ /\ speech' = [speech EXCEPT ![s].pc = "playing"]
          /\ UNCHANGED isSpeaking
       \/ SpeakCatch(s)
    /\ input' = NoInput
    /\ UNCHANGED <<isRecording, transcript, response, conversationHistory,
                   lastRecording, mediaRecorderRef, audioChunksRef, nSessions,
                   session, env, listening, stopErrors, overlapped, pointer>>

\* audio.onended
AudioEnded(s) ==
    /\ speech[s].pc = "playing"
    /\ isSpeaking' = FALSE
    /\ speech' = [speech EXCEPT ![s].pc = "done", ![s].url = "revoked",
                                ![s].cleared = @ + 1]
    /\ input' = NoInput
    /\ UNCHANGED <<isRecording, transcript, response, conversationHistory,
                   lastRecording, mediaRecorderRef, audioChunksRef, nSessions,
                   session, env, listening, stopErrors, overlapped, pointer>>

\* utterance.onend
UtteranceEnded(s) ==
    /\ speech[s].pc = "fallback"
    /\ isSpeaking' = FALSE
    /\ speech' = [speech EXCEPT ![s].pc = "done", ![s].cleared = @ + 1]
    /\ input' = NoInput
    /\ UNCHANGED <<isRecording, transcript, response, conversationHistory,
                   lastRecording, mediaRecorderRef, audioChunksRef, nSessions,
                   session, env, listening, stopErrors, overlapped, pointer>>

\* ------------------------------------------- the speech-recognition variant
\* What the steps of this variant leave alone: the recorder's state.
recorder ==
    <<isRecording, lastRecording, mediaRecorderRef, audioChunksRef, nSessions,
      session, stopErrors, input, overlapped>>

\* recognition.stop(): a recognition that was started and has not been stopped
\* is asked to end; on any other it does nothing.
Stopped(rec) ==
    IF rec.pc \in {"starting", "listening"} THEN [rec EXCEPT !.pc = "stopping"]
    ELSE rec

\* The recognitions after recognitionRef.current.stop(), if the ref holds one.
StopCurrent ==
    IF recognitionRef # 0
    THEN [recognition EXCEPT ![recognitionRef] = Stopped(@)]
    ELSE recognition

\* handlePointerDown -> startListening: any recognition in the ref is stopped,
\* a new one is created, published in the ref and started.
StartListening ==
    /\ Mounted
    /\ nRecognitions < MaxSessions
    /\ IF isSpeaking
       THEN UNCHANGED vars
       ELSE /\ pointer' = "down"
            /\ IF hasRecognition
               THEN /\ nRecognitions' = nRecognitions + 1
                    /\ recognition' =
                           [StopCurrent EXCEPT ![nRecognitions + 1] =
                               [NoRecognition EXCEPT
                                   !.pc = "starting",
                                   !.history = conversationHistory]]
                    /\ recognitionRef' = nRecognitions + 1
               ELSE UNCHANGED <<nRecognitions, recognition, recognitionRef>>
            /\ UNCHANGED <<isListening, hasRecognition, transcript, response,
                           isSpeaking, conversationHistory, speech, env,
                           recorder>>

\* handlePointerUp -> stopListening (pointer up or pointer leave).
StopListening ==
    /\ Mounted
    /\ pointer' = "up"
    /\ recognition' = StopCurrent
    /\ isListening' = IF recognitionRef # 0 THEN FALSE ELSE isListening
    /\ UNCHANGED <<recognitionRef, nRecognitions, hasRecognition, transcript,
                   response, isSpeaking, conversationHistory, speech, env,
                   recorder>>

\* recognition.onstart
OnStart(r) ==
    /\ recognition[r].pc = "starting"
    /\ recognition' = [recognition EXCEPT ![r].pc = "listening"]
    /\ isListening' = TRUE
    /\ UNCHANGED <<recognitionRef, nRecognitions, hasRecognition, transcript,
                   response, isSpeaking, conversationHistory, speech, env,
                   recorder, pointer>>

\* recognition.onresult up to its await: a transcript that is not blank is
\* shown, stopListening() is called, the user turn is written and the
\* dialogue request is issued.  One result per recognition is explored.
OnResult(r) ==
    /\ recognition[r].pc \in {"listening", "stopping"}
    /\ recognition[r].turn = "none"
    /\ \E text \in {<<" ">>, UserText(r)} :
          IF Truthy(Trim(text))
          THEN /\ transcript' = text
               /\ recognition' = [StopCurrent EXCEPT ![r].turn = "conversing"]
               /\ isListening' = IF recognitionRef # 0 THEN FALSE ELSE isListening
               /\ conversationHistory' =
                      Append(recognition[r].history, Message("user", text))
          ELSE UNCHANGED <<transcript, recognition, isListening,
                           conversationHistory>>
    /\ UNCHANGED <<recognitionRef, nRecognitions, hasRecognition, response,
                   isSpeaking, speech, env, recorder, pointer>>

\* openai.chat.completions.create settles: the reply, or the apology of the
\* catch, is shown and spoken; the reply is appended.
CompletionSettles(r) ==
    /\ recognition[r].turn = "conversing"
    /\ recognition' = [recognition EXCEPT ![r].turn = "done"]
    /\ \/ /\ response' = ReplyText(r)
          /\ conversationHistory' =
                 Append(conversationHistory, Message("assistant", ReplyText(r)))
          /\ speech' = SpeakCall(r, ReplyText(r))
       \/ /\ response' = ErrorApology
          /\ speech' = SpeakCall(r, ErrorApology)
          /\ UNCHANGED conversationHistory
    /\ isSpeaking' = TRUE
    /\ UNCHANGED <<isListening, recognitionRef, nRecognitions, hasRecognition,
                   transcript, env, recorder, pointer>>

\* recognition.onerror; the end event follows.
OnError(r) ==
    /\ recognition[r].pc \in {"starting", "listening"}
    /\ recognition' = [recognition EXCEPT ![r].pc = "stopping"]
    /\ isListening' = FALSE
    /\ UNCHANGED <<recognitionRef, nRecognitions, hasRecognition, transcript,
                   response, isSpeaking, conversationHistory, speech, env,
                   recorder, pointer>>

\* recognition.onend, after stop(), an error, or the end of the utterance
\* (continuous is false): the ref is cleared.
OnEnd(r) ==
    /\ recognition[r].pc \in {"listening", "stopping"}
    /\ recognition' = [recognition EXCEPT ![r].pc = "ended"]
    /\ isListening' = FALSE
    /\ recognitionRef' = 0
    /\ UNCHANGED <<nRecognitions, hasRecognition, transcript, response,
                   isSpeaking, conversationHistory, speech, env, recorder,
                   pointer>>

NextRecognition ==
    \/ StartListening
    \/ StopListening
    \/ \E r \in Sessions : OnStart(r)
    \/ \E r \in Sessions : OnResult(r)
    \/ \E r \in Sessions : CompletionSettles(r)
    \/ \E r \in Sessions : OnError(r)
    \/ \E r \in Sessions : OnEnd(r)
    \/ \E r \in Sessions : SpeechSettles(r)
    \/ \E r \in Sessions : PlaySettles(r)
    \/ \E r \in Sessions : AudioEnded(r)
    \/ \E r \in Sessions : UtteranceEnded(r)

\* ------------------------------------------------------- specification
Next ==
    \/ PointerDown
    \/ PointerUp
    \/ \E s \in Sessions : GetUserMediaResolves(s)
    \/ \E s \in Sessions : GetUserMediaRejects(s)
    \/ \E s \in Sessions : DataAvailable(s)
    \/ \E s \in Sessions : RecorderStops(s)
    \/ \E s \in Sessions : FetchSettles(s)
    \/ \E s \in Sessions : DialogueSettles(s)
    \/ \E s \in Sessions : SpeechSettles(s)
    \/ \E s \in Sessions : PlaySettles(s)
    \/ \E s \in Sessions : AudioEnded(s)
    \/ \E s \in Sessions : UtteranceEnded(s)

Spec == Init /\ [][Next]_vars

\* Every remote call, every promise of the browser and every playback
\* eventually completes or fails; the recorder delivers the stop it was asked
\* for.  Nothing is assumed of the user: pointer events may or may not come.
Fairness ==
    \A s \in Sessions :
        /\ WF_vars(GetUserMediaResolves(s) \/ GetUserMediaRejects(s))
        /\ WF_vars(RecorderStops(s))
        /\ WF_vars(FetchSettles(s))
        /\ WF_vars(DialogueSettles(s))
        /\ WF_vars(SpeechSettles(s))
        /\ WF_vars(PlaySettles(s))
        /\ WF_vars(AudioEnded(s))
        /\ WF_vars(UtteranceEnded(s))

FairSpec == Init /\ [][Next]_vars /\ Fairness

\* The component with a microphone that delivers data.
SpecClip == InitClip /\ [][Next]_vars

\* The speech-recognition variant of the component.
SpecRecognition == InitRecognition /\ [][NextRecognition]_vars

\* ------------------------------------------------------------ properties
IsPrefix(a, b) == Len(a) <= Len(b) /\ SubSeq(b, 1, Len(a)) = a

\* speak() of the turn of s was invoked and its speech output is not over.
Talking(s) == speech[s].pc \in {"requesting", "starting", "playing", "fallback"}

\* The step just taken invoked speak() for the turn of s.
SpeakInvoked(s) == speech[s].pc = "none" /\ speech'[s].pc = "requesting"

\* The step just taken is the onstop continuation of s receiving reply r.
Received(s) ==
    /\ session[s].pc = "transcribing"
    /\ session'[s].pc # "transcribing"
    /\ input'.session = s

\* C1: a second capture session is never opened while one is active: at most
\* one MediaRecorder is recording at any time.
C1_SingleCapture ==
    \A a, b \in Sessions :
        (session[a].pc = "recording" /\ session[b].pc = "recording") => a = b

\* C2: speak() is never invoked while a capture session is active.
C2_NoSpeakWhileRecording ==
    [][\A s \in Sessions : SpeakInvoked(s) => ~Capturing]_vars

\* C3: a press while the system is talking (from the call of speak() until the
\* speech output has finished) is a no-op: it opens no capture session.
C3_PressWhileTalkingIsNoOp ==
    [][(\E s \in Sessions : Talking(s)) => nSessions' = nSessions]_vars

\* C4: conversationHistory alternates roles, starting with user.
C4_HistoryAlternates ==
    \A i \in 1..Len(conversationHistory) :
        conversationHistory[i].role =
            IF i % 2 = 1 THEN "user" ELSE "assistant"

\* Every press so far became a turn that completed with a dialogue reply.
AllTurnsSucceeded ==
    /\ nSessions >= 1
    /\ \A s \in 1..nSessions :
          session[s].pc = "done" /\ session[s].dialogue = "ok"

\* C5: after N successful turns the history has exactly 2N entries, entry
\* 2k-1 the k-th user transcript and entry 2k the k-th assistant response.
C5_TwoEntriesPerTurn ==
    AllTurnsSucceeded =>
        /\ Len(conversationHistory) = 2 * nSessions
        /\ \A k \in 1..nSessions :
              /\ conversationHistory[2 * k - 1] = Message("user", UserText(k))
              /\ conversationHistory[2 * k] = Message("assistant", ReplyText(k))

\* C6: conversationHistory is append-only: every write leaves the previous
\* history as a prefix of the new one.
C6_HistoryAppendOnly ==
    [][IsPrefix(conversationHistory, conversationHistory')]_vars

\* The reply is a transcription success whose text is empty or only spaces.
BlankReply(r) ==
    /\ r.status = "ok" /\ r.body = "json" /\ r.hasField
    /\ \A i \in 1..Len(r.text) : r.text[i] = " "

\* What an empty transcript leaves alone: nothing is written, shown or spoken
\* and no dialogue request is issued.
DiscardedSilently(s) ==
    /\ UNCHANGED <<conversationHistory, transcript, response, speech,
                   isRecording, isSpeaking>>
    /\ session'[s].pc = "done"
    /\ session'[s].dialogue = "none"
    /\ session'[s].messages = <<>>

\* C7 (as amended): an empty or whitespace-only transcript is discarded
\* silently: history, transcript, response, isRecording and isSpeaking are left
\* as they were and neither the dialogue service nor speak() is invoked.
C7_EmptyTranscriptDiscarded ==
    [][\A s \in Sessions :
          (Received(s) /\ BlankReply(input'.reply)) => DiscardedSilently(s)]_vars

\* C7 as stated: ... and the system is back in Ready (not recording, not
\* speaking); stated for the runs in which no press arrived while a capture
\* was pending or active.
C7_EmptyTranscriptBackInReady ==
    [][\A s \in Sessions :
          (Received(s) /\ BlankReply(input'.reply) /\ ~overlapped') =>
              (DiscardedSilently(s) /\ ~isRecording' /\ ~isSpeaking')]_vars

C7_Witness ==
    /\ input.session # 0
    /\ input.reply = HttpResponse("ok", "json", TRUE, <<" ">>)
    /\ session[input.session].pc = "done"
    /\ conversationHistory # <<>>

\* The transcription call failed: a non-success status or a thrown error.
FailedReply(r) == r.status \in {"http500", "rejected"} \/ r.body = "malformed"

\* C8: when the transcription call fails, speak() is invoked exactly once with
\* the fixed apology, the dialogue service is not called and the turn appends
\* nothing to conversationHistory.
C8_TranscriptionFailureSpeaksApology ==
    [][\A s \in Sessions :
          (Received(s) /\ FailedReply(input'.reply)) =>
              /\ SpeakInvoked(s)
              /\ speech'[s].text = UnderstandApology
              /\ \A o \in Sessions \ {s} : speech'[o] = speech[o]
              /\ session'[s].pc = "done"
              /\ session'[s].dialogue = "none"
              /\ session'[s].messages = <<>>
              /\ conversationHistory' = conversationHistory]_vars

C8_Witness ==
    /\ input.session # 0
    /\ input.reply.status = "http500"
    /\ speech[input.session].pc = "requesting"
    /\ speech[input.session].text = UnderstandApology
    /\ conversationHistory # <<>>

\* C9: when the dialogue call fails the turn is discarded: the history is the
\* one from before the turn began.
C9_DialogueFailureDiscardsTurn ==
    [][\A s \in Sessions :
          (session[s].dialogue = "pending" /\ session'[s].dialogue = "failed")
              => conversationHistory' = session[s].history]_vars

\* C10: every speak() clears isSpeaking exactly once, and only when its speech
\* output has finished.
C10_ClearedOnceWhenFinished ==
    \A s \in Sessions :
        speech[s].cleared = IF speech[s].pc = "done" THEN 1 ELSE 0

\* C11: a release that arrives when no capture is active (before any
\* recording, after the recording was stopped, after a failed microphone open)
\* is a no-op: MediaRecorder.stop() is not called, no error is raised, and
\* isRecording, isSpeaking, conversationHistory, transcript and response are
\* unchanged.
C11_ReleaseWithoutCaptureIsNoOp ==
    [][(~Capturing /\ PointerUp) =>
          UNCHANGED <<session, stopErrors, isRecording, isSpeaking,
                      conversationHistory, transcript, response, speech,
                      mediaRecorderRef, audioChunksRef, lastRecording>>]_vars

\* A release was handled after the recording of the only press had been
\* stopped and its turn was over (mediaRecorderRef still holds the recorder).
C11_Witness ==
    /\ pointer = "up"
    /\ nSessions = 1
    /\ mediaRecorderRef = 1
    /\ session[1].pc = "done"
    /\ speech[1].pc = "done"
    /\ stopErrors = 0
    /\ ~isRecording

\* C12: releasing the pointer ends the recording session: once the release has
\* been handled and the microphone open has settled, no MediaRecorder is
\* recording and isRecording is false (stated for the runs in which no press
\* arrived while a capture was pending or active).
C12_ReleaseEndsSession ==
    (pointer = "up" /\ ~overlapped /\ \A s \in Sessions : session[s].pc # "opening")
        => (~Capturing /\ ~isRecording)

Last(q) == q[Len(q)]

\* The step just taken issued the dialogue request of the turn of s.
DialogueIssued(s) ==
    session[s].dialogue = "none" /\ session'[s].dialogue = "pending"

C14_EventuallyReady ==
    (pointer = "up" /\ nSessions >= 1) ~> (~isRecording /\ ~isSpeaking)

\* C15: every microphone stream acquired by a press is released: if remote
\* calls eventually complete or fail, all tracks of the stream of each
\* successful getUserMedia are eventually stopped.
C15_StreamReleased ==
    \A s \in Sessions :
        (session[s].stream = "live") ~> (session[s].stream = "stopped")

\* The chunks the recorder of s has emitted, in emission order.
OwnChunks(s) == [k \in 1..session[s].emitted |-> Chunk(s, k)]

\* C16: the clip built when a recording session stops is exactly the
\* concatenation, in emission order, of the chunks its own recorder emitted
\* (stated for the runs in which no press arrived while a capture was pending
\* or active).
C16_ClipIsOwnChunks ==
    [][\A s \in Sessions :
          (session[s].pc = "stopping" /\ session'[s].pc = "transcribing"
              /\ ~overlapped')
                => lastRecording' = OwnChunks(s)']_vars

\* C17: the message list sent to the dialogue service for a turn is the
\* complete conversationHistory as it stands at the moment of the call, in
\* order, followed by the turn's user transcript: it omits no turn that is in
\* the history at that moment (stated for the runs in which no press arrived
\* while a capture was pending or active).
C17_MessagesAreFullHistory ==
    [][\A s \in Sessions :
          (DialogueIssued(s) /\ ~overlapped') =>
              session'[s].messages =
                  Append(conversationHistory, Message("user", transcript'))]_vars

\* The step just taken is the microphone open of s failing.
MicOpenFailed(s) ==
    /\ session[s].pc = "opening"
    /\ session'[s].pc = "aborted"
    /\ session'[s].stream = "none"

C20_UrlRevoked ==
    \A s \in Sessions : (speech[s].url = "live") ~> (speech[s].url = "revoked")

\* C21: with no API key configured App renders only the setup instructions:
\* VoiceChat is never mounted, so no microphone is opened and no remote call
\* is made; with a key configured VoiceChat is mounted with exactly that key.
C21_ApiKeyGate ==
    /\ apiKey = EmptyText =>
          /\ App(apiKey) = [screen |-> "setup", voiceChat |-> <<>>]
          /\ nSessions = 0
          /\ \A s \in Sessions : session[s] = NoSession /\ speech[s] = NoSpeech
    /\ apiKey # EmptyText =>
          /\ App(apiKey).screen = "chat"
          /\ App(apiKey).voiceChat = <<[apiKey |-> apiKey]>>

\* No key is configured and the setup instructions are shown.
C21_Witness ==
    /\ apiKey = EmptyText
    /\ App(apiKey).screen = "setup"
    /\ ~Mounted

\* The webhook answered with a non-success status, with a body that is not
\* JSON, or with JSON that lacks the speechInputText field.
MalformedReply(r) ==
    \/ r.status = "http500"
    \/ r.status = "ok" /\ r.body = "malformed"
    \/ r.status = "ok" /\ r.body = "json" /\ ~r.hasField

\* C22: a webhook response with a non-success status or a malformed body (not
\* JSON, or lacking speechInputText) is a transcription failure: the apology
\* is spoken and the history is unchanged; it is not taken for an empty
\* transcript.
C22_MalformedIsFailure ==
    [][\A s \in Sessions :
          (Received(s) /\ MalformedReply(input'.reply)) =>
              /\ SpeakInvoked(s)
              /\ speech'[s].text = UnderstandApology
              /\ response' = UnderstandApology
              /\ conversationHistory' = conversationHistory]_vars

\* The reply is a transcription success with text that is not blank.
SpokenReply(r) ==
    /\ r.status = "ok" /\ r.body = "json" /\ r.hasField
    /\ \E i \in 1..Len(r.text) : r.text[i] # " "

\* C23: completions are not fenced: when a newer press has been accepted while
\* the transcription or dialogue call of a turn is in flight, the result of
\* the call is applied when it completes as if there had been no new press:
\* transcript and response are shown, the user and assistant turns are
\* written to conversationHistory and speak() is invoked.
C23_StaleCompletionsApplied ==
    [][\A s \in Sessions :
          nSessions > s =>
              /\ (Received(s) /\ SpokenReply(input'.reply)) =>
                    /\ transcript' = input'.reply.text
                    /\ conversationHistory' =
                           Append(session[s].history,
                                  Message("user", input'.reply.text))
                    /\ DialogueIssued(s)
              /\ (Received(s) /\ FailedReply(input'.reply)) =>
                    /\ response' = UnderstandApology
                    /\ SpeakInvoked(s)
                    /\ isSpeaking'
              /\ (session[s].dialogue = "pending"
                     /\ session'[s].dialogue = "ok") =>
                    /\ response' = ReplyText(s)
                    /\ conversationHistory' =
                           Append(conversationHistory,
                                  Message("assistant", ReplyText(s)))
                    /\ SpeakInvoked(s)
                    /\ speech'[s].text = ReplyText(s)
                    /\ isSpeaking'
              /\ (session[s].dialogue = "pending"
                     /\ session'[s].dialogue = "failed") =>
                    /\ response' = ErrorApology
                    /\ SpeakInvoked(s)
                    /\ isSpeaking']_vars

\* The reply of the first turn arrived and is being spoken while the
\* recorder of a second press records.
C23_Witness ==
    /\ nSessions = 2
    /\ session[2].pc = "recording"
    /\ session[1].dialogue = "ok"
    /\ speech[1].pc = "requesting"
    /\ response = ReplyText(1)
    /\ conversationHistory =
           <<Message("user", UserText(1)), Message("assistant", ReplyText(1))>>
    /\ ~overlapped

\* C24: MediaRecorder.stop() is never called on a recorder that is inactive:
\* whatever the presses and releases, each started recorder receives stop()
\* at most once and no call raises InvalidStateError.
C24_StopAtMostOnce ==
    /\ stopErrors = 0
    /\ \A s \in Sessions : session[s].stops <= 1

\* Two presses, each released once its recorder ran; the recorder of the
\* second is left in mediaRecorderRef and a release was the last event.
C24_Witness ==
    /\ nSessions = 2
    /\ session[1].stops = 1
    /\ session[2].stops = 1
    /\ session[2].pc = "done"
    /\ mediaRecorderRef = 2
    /\ pointer = "up"
    /\ ~isRecording

\* C25: in the speech-recognition variant, whenever a recognition is active
\* (started, neither stopped nor ended) recognitionRef.current refers to it, so
\* that a release stops it: the end event of an older recognition never
\* clears the reference to a newer one.
C25_RefHoldsActiveRecognition ==
    \A r \in Sessions :
        recognition[r].pc \in {"starting", "listening"} => recognitionRef = r

====
